---- MODULE Spec2Model ----
(***************************************************************************)
(* A model of the SSDP engine of Cohen3, coherence/upnp/core/ssdp.py       *)
(* (class SSDPServer): the registry `known`, the list `root_devices`, the  *)
(* delayed discovery responses held by the reactor, the two looping calls, *)
(* and the events dispatched and datagrams written by each operation.      *)
(*                                                                         *)
(* Strings the code takes apart (CACHE-CONTROL, MX, host addresses, the    *)
(* HOST header) are sequences of one-character strings; strings the code   *)
(* only compares or stores (USN, ST, NTS, LOCATION, SERVER) are TLA+       *)
(* strings.                                                                *)
(***************************************************************************)
EXTENDS Integers, Sequences, FiniteSets, TLC

(***************************************************************************)
(* Bounds of the model.                                                    *)
(***************************************************************************)
\* number of clock advances in one behaviour
MaxTicks == 2
\* largest length of root_devices (register appends without limit)
MaxRoot == 2
\* largest MX header value an M-SEARCH carries
MaxMX == 1
\* largest number of subscriptions held at a time
MaxObservers == 2
\* largest number of quote characters before or after a header name or value
MaxQuotes == 2

(***************************************************************************)
(* Program constants.                                                      *)
(***************************************************************************)
SSDP_PORT == 1900
\* the grace added to the lease in check_valid
ExpiryGrace == 30

SSDP_ADDR == <<"2","3","9",".","2","5","5",".","2","5","5",".","2","5","0">>
SSDP_ADDR6 == <<"f","f","0","5",":",":","c">>
RootDevice == "upnp:rootdevice"

(***************************************************************************)
(* Python string operations on sequences of characters.                    *)
(***************************************************************************)
Range(f) == {f[i] : i \in DOMAIN f}

\* s.startswith(p)
StartsWith(s, p) ==
    /\ Len(p) <= Len(s)
    /\ \A i \in 1..Len(p) : s[i] = p[i]

\* p in s (substring test)
Contains(s, p) ==
    \E k \in 0..(Len(s) - Len(p)) : \A i \in 1..Len(p) : s[k + i] = p[i]

\* s.split(sep) for a one-character separator: the list of the pieces
RECURSIVE SplitFrom(_, _, _, _)
SplitFrom(s, sep, i, cur) ==
    IF i > Len(s) THEN <<cur>>
    ELSE IF s[i] = sep THEN <<cur>> \o SplitFrom(s, sep, i + 1, <<>>)
    ELSE SplitFrom(s, sep, i + 1, Append(cur, s[i]))

Split(s, sep) == SplitFrom(s, sep, 1, <<>>)

DigitChars == <<"0","1","2","3","4","5","6","7","8","9">>

DigitValue(c) == (CHOOSE i \in 1..10 : DigitChars[i] = c) - 1

IsDigits(s) == Len(s) > 0 /\ \A i \in 1..Len(s) : s[i] \in Range(DigitChars)

RECURSIVE DigitsValue(_, _)
DigitsValue(s, n) ==
    IF n = 0 THEN 0 ELSE 10 * DigitsValue(s, n - 1) + DigitValue(s[n])

\* s.strip(): blanks removed at both ends
RECURSIVE Strip(_)
Strip(s) ==
    IF s # <<>> /\ Head(s) = " " THEN Strip(Tail(s))
    ELSE IF s # <<>> /\ s[Len(s)] = " " THEN Strip(SubSeq(s, 1, Len(s) - 1))
    ELSE s

\* int(s): [ok |-> FALSE] stands for ValueError
ParseInt(s) ==
    LET t == Strip(s)
        neg == t # <<>> /\ Head(t) = "-"
        pos == t # <<>> /\ Head(t) = "+"
        d == IF neg \/ pos THEN Tail(t) ELSE t
    IN IF IsDigits(d)
       THEN [ok |-> TRUE,
             val |-> IF neg THEN 0 - DigitsValue(d, Len(d)) ELSE DigitsValue(d, Len(d))]
       ELSE [ok |-> FALSE, val |-> 0]

UpperChars == <<"A","B","C","D","E","F">>
LowerChars == <<"a","b","c","d","e","f">>

\* s.lower() over the letters an address can hold
Lower(s) ==
    [i \in 1..Len(s) |->
        IF s[i] \in Range(UpperChars)
        THEN LowerChars[CHOOSE k \in 1..6 : UpperChars[k] = s[i]]
        ELSE s[i]]

(***************************************************************************)
(* The parsing of a datagram in datagramReceived.  A datagram is given by  *)
(* whether it holds the blank line that ends the header block, the words   *)
(* of its first line, and its further header lines.                        *)
(***************************************************************************)
\* the characters fix_string takes off, in the order of its loops
QuoteChars == <<"'", "\"">>

\* while s.startswith(q): s = s[1:]
RECURSIVE StripLeading(_, _)
StripLeading(s, q) ==
    IF s # <<>> /\ Head(s) = q THEN StripLeading(Tail(s), q) ELSE s

\* while s.endswith(q): s = s[:-1]
RECURSIVE StripTrailing(_, _)
StripTrailing(s, q) ==
    IF s # <<>> /\ s[Len(s)] = q THEN StripTrailing(SubSeq(s, 1, Len(s) - 1), q) ELSE s

\* fix_string: one loop over the two quote characters for the start, one for
\* the end
fix_string(s, to_lower) ==
    LET s1 == StripLeading(StripLeading(s, QuoteChars[1]), QuoteChars[2])
        s2 == StripTrailing(StripTrailing(s1, QuoteChars[1]), QuoteChars[2])
    IN IF to_lower THEN Lower(s2) ELSE s2

\* the place of the first sep in s, 0 when there is none
FirstAt(s, sep) ==
    IF \E i \in DOMAIN s : s[i] = sep
    THEN CHOOSE i \in DOMAIN s : s[i] = sep /\ \A j \in 1..(i - 1) : s[j] # sep
    ELSE 0

\* x.split(':', 1)
SplitOnce(x, sep) ==
    IF FirstAt(x, sep) = 0 THEN <<x>>
    ELSE <<SubSeq(x, 1, FirstAt(x, sep) - 1), SubSeq(x, FirstAt(x, sep) + 1, Len(x))>>

\* x.replace(': ', ':', 1)
ReplaceColonBlank(x) ==
    IF \E i \in 1..(Len(x) - 1) : x[i] = ":" /\ x[i + 1] = " "
    THEN LET i == CHOOSE k \in 1..(Len(x) - 1) :
                     /\ x[k] = ":" /\ x[k + 1] = " "
                     /\ \A j \in 1..(k - 1) : ~(x[j] = ":" /\ x[j + 1] = " ")
         IN SubSeq(x, 1, i) \o SubSeq(x, i + 2, Len(x))
    ELSE x

\* the dict built from the header lines: [raised, headers]; a later line of
\* the same name replaces an earlier one; a line without a colon has no x[1]
RECURSIVE parseHeaders(_, _)
parseHeaders(lines, headers) ==
    IF lines = <<>> THEN [raised |-> "none", headers |-> headers]
    ELSE LET x == SplitOnce(Head(lines), ":")
         IN IF Len(x) < 2 THEN [raised |-> "IndexError", headers |-> headers]
            ELSE LET name == fix_string(x[1], TRUE)
                     value == fix_string(x[2], FALSE)
                 IN parseHeaders(Tail(lines),
                        [n \in DOMAIN headers \cup {name} |->
                            IF n = name THEN value ELSE headers[n]])

\* datagramReceived up to the dispatch on the command: the outcomes it can
\* have.  Without the blank line the unpacking fails, pdb.set_trace() is
\* called and then either the debugger quits or header is read unassigned.
parseDatagram(data) ==
    IF ~data.terminated
    THEN {[raised |-> exc, cmd |-> <<>>, headers |-> <<>>]
          : exc \in {"BdbQuit", "UnboundLocalError"}}
    ELSE LET lines == SelectSeq([i \in DOMAIN data.lines |->
                                    ReplaceColonBlank(data.lines[i])],
                                LAMBDA x : Len(x) > 0)
             r == parseHeaders(lines, <<>>)
         IN {[raised |-> r.raised, cmd |-> data.cmd, headers |-> r.headers]}


(***************************************************************************)
(* The datagrams the parsing is run on.                                    *)
(***************************************************************************)
\* the runs of at most n quote characters, in every mix and order
RECURSIVE QuoteRuns(_)
QuoteRuns(n) ==
    IF n = 0 THEN {<<>>}
    ELSE QuoteRuns(n - 1)
         \cup {Append(r, q) : r \in QuoteRuns(n - 1), q \in Range(QuoteChars)}

HeaderName == <<"A", "b">>
HeaderValue == <<"c", "D">>

\* header lines NAME:VALUE and NAME: VALUE, the name within one run of
\* quotes at both ends, the value within any two runs
HeaderLines ==
    {r \o HeaderName \o r \o sep \o lead \o HeaderValue \o trail
     : r \in QuoteRuns(MaxQuotes), sep \in {<<":">>, <<":", " ">>},
       lead \in QuoteRuns(MaxQuotes), trail \in QuoteRuns(MaxQuotes)}

\* a header line without a colon
NoColonLine == <<"A", "b">>

\* the datagrams: with and without the blank line, a first line of three
\* words or of one, and one header line, well-formed, without a colon or empty
DatagramsIn ==
    {[terminated |-> term, cmd |-> cmd, lines |-> <<line>>]
     : term \in BOOLEAN, cmd \in {<<"NOTIFY", "*", "HTTP/1.1">>, <<"NOTIFY">>},
       line \in HeaderLines \cup {NoColonLine, <<>>}}

\* no datagram has been received
NoData == [terminated |-> TRUE, cmd |-> <<>>, lines |-> <<>>]

(***************************************************************************)
(* Input alphabets.                                                        *)
(***************************************************************************)
USNs == {"uuid:a", "uuid:b"}
STs == {RootDevice, "urn:svc"}
Location == "http://10.0.0.2:8080/desc"
ServerId == "TestSrv/1.0"

MaxAge10 == <<"m","a","x","-","a","g","e","=","1","0">>
NoCache == <<"n","o","-","c","a","c","h","e">>
CacheControls == {MaxAge10, NoCache}

\* host=None, the default of register
NoneHost == <<"None">>
Host4 == <<"1","0",".","0",".","0",".","2">>
Host6LL == <<"f","e","8","0",":",":","2">>
Host6 == <<"2","0","0","1",":","d","b","8",":",":","9">>
Peer4 == <<"1","0",".","0",".","0",".","9">>
PeerPorts == {51000}

HostHeader4 == SSDP_ADDR \o <<":","1","9","0","0">>
HostHeader6 == <<"[","F","F","0","5",":",":","c","]",":","1","9","0","0">>

(***************************************************************************)
(* The ConnectionManagerServer of a device, as a record:                   *)
(*   device_type           self.device.device_type; "none" before the      *)
(*                         server is constructed                            *)
(*   next_connection_id, next_avt_id, next_rcs_id   the three counters     *)
(*   connections           self.connections, a dict in insertion order:    *)
(*                         the sequence of its values, each with its key   *)
(*   CurrentConnectionIDs  the state variable, a string                    *)
(*   av_transport, rendering_control   get_variables() of the two servers: *)
(*                         per instance id, per variable name, the         *)
(*                         variable's last_time_touched                    *)
(*   current_connection_id backend.current_connection_id, 0 for None       *)
(*   loop_running          remove_lingering_connections_loop.running       *)
(*   raised                the exception the last call ended with          *)
(***************************************************************************)
LingerSeconds == 300
MaxConnections == 2

DeviceTypes == {"MediaRenderer", "MediaServer"}

\* the state variables an instance of either server is created with
AVTransportVariables == {"TransportState", "AVTransportURI"}
RenderingControlVariables == {"Volume", "Mute"}

\* ','.join([str(x) for x in self.connections])
RECURSIVE csv_ids(_)
csv_ids(connections) ==
    IF connections = <<>> THEN <<>>
    ELSE IF Len(connections) = 1 THEN <<DigitChars[connections[1].id + 1]>>
    ELSE <<DigitChars[connections[1].id + 1], ",">>
             \o csv_ids(Tail(connections))

\* no ConnectionManagerServer has been constructed yet
NoServer ==
    [device_type |-> "none", next_connection_id |-> 1, next_avt_id |-> 1,
     next_rcs_id |-> 1, connections |-> <<>>, CurrentConnectionIDs |-> <<>>,
     av_transport |-> <<>>, rendering_control |-> <<>>,
     current_connection_id |-> 0, loop_running |-> FALSE, raised |-> "none"]

\* ConnectionManagerServer.__init__ on a device of the given type
ConnectionManagerServer(device_type) ==
    [NoServer EXCEPT !.device_type = device_type, !.loop_running = TRUE]

\* create_new_instance(id) of a server whose variables are vars, at time t
create_new_instance(variables, names, id, t) ==
    (id :> [name \in names |-> t]) @@ variables

\* remove_instance(id)
remove_instance(variables, id) ==
    [i \in DOMAIN variables \ {id} |-> variables[i]]

\* id in self.connections
HasConnection(c, id) == \E i \in DOMAIN c.connections : c.connections[i].id = id

\* self.connections[id]
Connection(c, id) ==
    c.connections[CHOOSE i \in DOMAIN c.connections : c.connections[i].id = id]

lookup_avt_id(c, id) ==
    IF HasConnection(c, id) THEN Connection(c, id).AVTransportID ELSE 0

lookup_rcs_id(c, id) ==
    IF HasConnection(c, id) THEN Connection(c, id).RcsID ELSE 0

\* del self.connections[id], for an id that is there
DelConnection(c, id) ==
    [c EXCEPT !.connections = SelectSeq(@, LAMBDA x : x.id # id)]

\* self.set_variable(0, 'CurrentConnectionIDs', csv_ids)
SetCurrentConnectionIDs(c) ==
    [c EXCEPT !.CurrentConnectionIDs = csv_ids(c.connections)]

\* add_connection(...) at time t
add_connection(c, t) ==
    LET id == c.next_connection_id
        c1 == [c EXCEPT !.next_connection_id = id + 1]
        c2 == IF c1.device_type = "MediaServer"
              THEN [c1 EXCEPT !.connections =
                        Append(@, [id |-> id, AVTransportID |-> 0,
                                   RcsID |-> 0])]
              ELSE c1
        avt_id == c2.next_avt_id
        rcs_id == c2.next_rcs_id
        c3 == IF c2.device_type = "MediaRenderer"
              THEN [c2 EXCEPT
                      !.next_avt_id = avt_id + 1,
                      !.av_transport = create_new_instance(
                          @, AVTransportVariables, avt_id, t),
                      !.next_rcs_id = rcs_id + 1,
                      !.rendering_control = create_new_instance(
                          @, RenderingControlVariables, rcs_id, t),
                      !.connections =
                          Append(@, [id |-> id, AVTransportID |-> avt_id,
                                     RcsID |-> rcs_id]),
                      !.current_connection_id = id]
              ELSE c2
    IN SetCurrentConnectionIDs(c3)

\* remove_connection(id)
remove_connection(c, id) ==
    LET c1 == IF c.device_type = "MediaRenderer"
              THEN LET r1 == [c EXCEPT
                                !.av_transport =
                                    remove_instance(@, lookup_avt_id(c, id)),
                                !.rendering_control =
                                    remove_instance(@, lookup_rcs_id(c, id))]
                       \* a KeyError of the del is caught and logged
                       r2 == IF HasConnection(r1, id)
                             THEN DelConnection(r1, id) ELSE r1
                   IN [r2 EXCEPT !.current_connection_id = 0]
              ELSE c
    IN IF c1.device_type = "MediaServer" /\ ~HasConnection(c1, id)
       THEN [c1 EXCEPT !.raised = "KeyError"]
       ELSE SetCurrentConnectionIDs(
                IF c1.device_type = "MediaServer"
                THEN DelConnection(c1, id) ELSE c1)

\* the body of the loop of remove_lingering_connections over
\* list(self.connections.items()), from item i on, at time t
RECURSIVE lingerScan(_, _, _, _)
lingerScan(c, items, i, t) ==
    IF i > Len(items) THEN c
    ELSE
      LET connection == items[i]
          avt_id == connection.AVTransportID
          rcs_id == connection.RcsID
          \* get_variables().get(avt_id) is None for an unknown instance
          avt_vars == IF avt_id \in DOMAIN c.av_transport
                      THEN c.av_transport[avt_id] ELSE <<>>
          avt_active ==
              IF avt_id > 0 /\ DOMAIN avt_vars # {}
              THEN \E name \in DOMAIN avt_vars :
                       avt_vars[name] + LingerSeconds >= t
              ELSE TRUE
      IN IF rcs_id > 0
         \* rcs_vars is the one-element tuple (get(rcs_id),): it is true,
         \* and it has no values()
         THEN [c EXCEPT !.raised = "AttributeError"]
         ELSE LET rcs_active == TRUE
              IN IF ~avt_active /\ ~rcs_active
                 THEN lingerScan(remove_connection(c, connection.id),
                                 items, i + 1, t)
                 ELSE lingerScan(c, items, i + 1, t)

\* remove_lingering_connections() at time t
remove_lingering_connections(c, t) ==
    IF c.device_type # "MediaRenderer" THEN c
    ELSE lingerScan(c, c.connections, 1, t)

(***************************************************************************)
(* The state of one SSDPServer.                                            *)
(*   test, ipv6      constructor options                                   *)
(*   known           self.known, a dict in insertion order: the sequence   *)
(*                   of its values, each holding its key as USN            *)
(*   root_devices    self.root_devices                                     *)
(*   calls           the reactor's delayed calls of self.send_it           *)
(*   transport       self.transport: "none", "fake" or "real"              *)
(*   dummy_socket    self.dummy_socket: "open", or "none" (None or unset)  *)
(*   resend_running, check_running   LoopingCall.running of the two loops  *)
(*   now             time.time()                                           *)
(*   ticks           number of clock advances so far                       *)
(*   last_event      per USN, the last new_device or removed_device event  *)
(*                   dispatched for it so far                              *)
(*   cm              the device's ConnectionManagerServer                  *)
(***************************************************************************)
VARIABLES test, ipv6, known, root_devices, calls, transport, dummy_socket,
          resend_running, check_running, now, ticks, last_event, callbacks,
          data, parsed, cm

vars == <<test, ipv6, known, root_devices, calls, transport, dummy_socket,
          resend_running, check_running, now, ticks, last_event, callbacks,
          data, parsed, cm>>

(***************************************************************************)
(* The dict self.known.                                                    *)
(***************************************************************************)
\* the keys a record gets in register, in the order they are set
RecordKeys == <<"USN", "LOCATION", "ST", "EXT", "SERVER", "CACHE-CONTROL",
                "MANIFESTATION", "SILENT", "HOST", "last-seen">>

MkRecord(manifestation, usn, st, location, server, cache_control, silent, host, t) ==
    [k \in Range(RecordKeys) |->
        CASE k = "USN" -> usn
          [] k = "LOCATION" -> location
          [] k = "ST" -> st
          [] k = "EXT" -> ""
          [] k = "SERVER" -> server
          [] k = "CACHE-CONTROL" -> cache_control
          [] k = "MANIFESTATION" -> manifestation
          [] k = "SILENT" -> silent
          [] k = "HOST" -> host
          [] k = "last-seen" -> t]

NoRec == MkRecord("", "", "", "", "", <<>>, FALSE, <<>>, 0)

Keys(d) == {d[i].USN : i \in DOMAIN d}

\* usn in self.known
isKnown(d, usn) == usn \in Keys(d)

\* d[usn]
GetItem(d, usn) == d[CHOOSE i \in DOMAIN d : d[i].USN = usn]

\* an assignment that also resets the HOST of the record
SetItem_resets_host(d, usn, rec) ==
    IF usn \in {d[i].USN : i \in DOMAIN d}
    THEN [i \in DOMAIN d |-> IF d[i].USN = usn THEN [rec EXCEPT !.HOST = <<>>] ELSE d[i]]
    ELSE Append(d, rec)

\* d[usn] = rec: an existing key keeps its place, a new key goes last
SetItem(d, usn, rec) ==
    IF usn \in Keys(d)
    THEN [i \in DOMAIN d |-> IF d[i].USN = usn THEN rec ELSE d[i]]
    ELSE Append(d, rec)

\* a deletion that empties the dict
DelItem_all(d, usn) == <<>>

\* del d[usn]
DelItem(d, usn) == SelectSeq(d, LAMBDA r : r.USN # usn)

\* list.remove(x): the first occurrence goes
RECURSIVE ListRemove(_, _)
ListRemove(l, x) ==
    IF l = <<>> THEN <<>>
    ELSE IF Head(l) = x THEN Tail(l)
    ELSE <<Head(l)>> \o ListRemove(Tail(l), x)

(***************************************************************************)
(* An operation works on a record of the mutable fields and returns the    *)
(* record after it.  Its outputs are fields of that record: `emitted`, the *)
(* events it dispatched, each with what an observer sees at the moment of  *)
(* the dispatch; `sent`, the datagrams it wrote; `raised`, the exception   *)
(* that left it, if any.                                                   *)
(***************************************************************************)
Cur ==
    [known |-> known, root_devices |-> root_devices, calls |-> calls,
     transport |-> transport, dummy_socket |-> dummy_socket,
     resend_running |-> resend_running, check_running |-> check_running,
     callbacks |-> callbacks,
     emitted |-> <<>>, sent |-> <<>>, invoked |-> <<>>, raised |-> "none"]

Raise(s, exc) == [s EXCEPT !.raised = exc]

\* self.dispatch_event(name, ...): the observers run now and see this state
dispatch_event(s, name, usn) ==
    [s EXCEPT !.emitted = Append(@,
        [name |-> name, usn |-> usn,
         in_root |-> usn \in Range(s.root_devices),
         in_known |-> usn \in Keys(s.known)])]

\* the events registered with register_event in __init__
Channels == {"datagram_received", "new_device", "removed_device", "log"}

\* the observers a caller subscribes
Observers == {"o1", "o2"}

\* self._callbacks.setdefault(name, []).append(callback)
subscribe(s, name, observer) ==
    [s EXCEPT !.callbacks[name] = Append(@, observer)]

\* callbacks.remove(callback) when it is in the list; the list of a name
\* never subscribed to is the empty list as before
unsubscribe(s, name, observer) ==
    [s EXCEPT !.callbacks[name] = ListRemove(@, observer)]

\* the method callback: every observer of the name is called, in the order
\* of the list
callback(s, name) ==
    [s EXCEPT !.invoked = @ \o [i \in DOMAIN s.callbacks[name] |->
                                   [observer |-> s.callbacks[name][i], name |-> name]]]

GroupDest == <<IF ipv6 THEN SSDP_ADDR6 ELSE SSDP_ADDR, SSDP_PORT>>

\* transport.write(datagram, dest) / dummy_socket.sendto(datagram, dest)
write(s, via, kind, nts, usn, dest, headers) ==
    [s EXCEPT !.sent = Append(@,
        [via |-> via, kind |-> kind, nts |-> nts, usn |-> usn, dest |-> dest,
         headers |-> headers])]

\* the header lines of a NOTIFY: stcpy of the record, NT added last, ST,
\* MANIFESTATION, SILENT, HOST and last-seen deleted
NotifyHeaders(rec, nts) ==
    <<<<"HOST", IF ipv6 THEN <<"[">> \o SSDP_ADDR6 \o <<"]">> ELSE SSDP_ADDR>>,
      <<"NTS", nts>>,
      <<"USN", rec.USN>>,
      <<"LOCATION", rec.LOCATION>>,
      <<"EXT", rec.EXT>>,
      <<"SERVER", rec.SERVER>>,
      <<"CACHE-CONTROL", rec["CACHE-CONTROL"]>>,
      <<"NT", rec.ST>> >>

\* an announcement that is sent for a silent record too
doNotify_also_silent(s, usn) ==
    write([s EXCEPT !.transport = IF @ = "none" THEN "fake" ELSE @],
          "transport", "NOTIFY", "ssdp:alive", usn, GroupDest,
          NotifyHeaders(GetItem(s.known, usn), "ssdp:alive"))

doNotify(s, usn) ==
    LET rec == GetItem(s.known, usn)
    IN IF rec.SILENT = TRUE THEN s
       ELSE LET s1 == [s EXCEPT !.transport = IF @ = "none" THEN "fake" ELSE @]
            IN write(s1, "transport", "NOTIFY", "ssdp:alive", usn, GroupDest,
                     NotifyHeaders(rec, "ssdp:alive"))

\* a byebye that is not sent for a silent record
doByebye_unless_silent(s, usn) ==
    IF GetItem(s.known, usn).SILENT = TRUE THEN s
    ELSE write([s EXCEPT !.transport = IF @ = "none" THEN "fake" ELSE @],
               "transport", "NOTIFY", "ssdp:byebye", usn, GroupDest,
               NotifyHeaders(GetItem(s.known, usn), "ssdp:byebye"))

doByebye(s, usn) ==
    LET rec == GetItem(s.known, usn)
        s1 == [s EXCEPT !.transport = IF @ = "none" THEN "fake" ELSE @]
    IN write(s1, "transport", "NOTIFY", "ssdp:byebye", usn, GroupDest,
             NotifyHeaders(rec, "ssdp:byebye"))

\* a register that announces every record
RegisterAnnounces_whatever(manifestation) == TRUE

\* register announces a record when this holds (doNotify returns at once
\* for a silent record)
RegisterAnnounces(manifestation) == manifestation = "local"

\* register emits new_device and appends to root_devices when this holds
IsRoot(st) == st = RootDevice

register(s, manifestation, usn, st, location, server, cache_control, silent, host) ==
    IF ipv6 /\ host = NoneHost THEN Raise(s, "TypeError")
    ELSE IF ipv6 /\ ~Contains(host, <<":">>) THEN s
    ELSE LET rec == MkRecord(manifestation, usn, st, location, server,
                             cache_control, silent, host, now)
             s1 == [s EXCEPT !.known = SetItem(@, usn, rec)]
             s2 == IF RegisterAnnounces(manifestation) THEN doNotify(s1, usn) ELSE s1
         IN IF IsRoot(st)
            THEN LET s3 == dispatch_event(s2, "new_device", usn)
                 IN [s3 EXCEPT !.root_devices = Append(@, usn)]
            ELSE s2

\* unRegister that forgets the removed_device event
unRegister_without_event(s, usn) ==
    IF ~isKnown(s.known, usn) THEN Raise(s, "KeyError")
    ELSE [s EXCEPT !.root_devices = ListRemove(@, usn), !.known = DelItem(@, usn)]

unRegister(s, usn) ==
    IF ~isKnown(s.known, usn) THEN Raise(s, "KeyError")
    ELSE LET st == GetItem(s.known, usn).ST
         IN IF st = RootDevice
            THEN LET s1 == dispatch_event(s, "removed_device", usn)
                 IN IF usn \notin Range(s1.root_devices)
                    THEN Raise(s1, "ValueError")
                    ELSE [s1 EXCEPT !.root_devices = ListRemove(@, usn),
                                    !.known = DelItem(@, usn)]
            ELSE [s EXCEPT !.known = DelItem(@, usn)]


(***************************************************************************)
(* Inbound datagrams.  `headers` is the dict datagramReceived builds: a    *)
(* function from the lowercased header names present to their values.      *)
(***************************************************************************)
Has(headers, k) == k \in DOMAIN headers

notifyReceived(s, headers, host) ==
    IF ~Has(headers, "nt") \/ ~Has(headers, "nts") THEN Raise(s, "KeyError")
    ELSE
    LET s1 ==
          IF headers["nts"] = "ssdp:alive"
          THEN IF Has(headers, "usn") /\ isKnown(s.known, headers["usn"])
               THEN [s EXCEPT !.known = SetItem(@, headers["usn"],
                        [GetItem(s.known, headers["usn"]) EXCEPT !["last-seen"] = now])]
               ELSE IF \E k \in {"usn", "location", "server", "cache-control"} :
                          ~Has(headers, k)
                    THEN Raise(s, "KeyError")
                    ELSE register(s, "remote", headers["usn"], headers["nt"],
                                  headers["location"], headers["server"],
                                  headers["cache-control"], FALSE, host)
          ELSE IF headers["nts"] = "ssdp:byebye"
          THEN IF ~Has(headers, "usn") THEN Raise(s, "KeyError")
               ELSE IF isKnown(s.known, headers["usn"])
                    THEN unRegister(s, headers["usn"])
                    ELSE s
          ELSE s
    IN IF s1.raised # "none" THEN s1
       ELSE IF ~Has(headers, "usn") THEN Raise(s1, "KeyError")
       ELSE dispatch_event(s1, "log", headers["usn"])

\* a random delay that can exceed the upper end by one
RandInt_beyond(a, b) == a..(b + 1)

\* random.randint(a, b): the values it can return; none stands for ValueError
RandInt(a, b) == a..b

\* the items of a record a discovery response carries, in the record's order
ResponseKeys == SelectSeq(RecordKeys, LAMBDA k : k \notin {"MANIFESTATION", "SILENT", "HOST"})

ResponseHeaders(rec) ==
    [i \in 1..Len(ResponseKeys) |-> <<ResponseKeys[i], rec[ResponseKeys[i]]>>]
        \o << <<"DATE", now>> >>

\* a search that remote records answer too
Matches_remote_too(rec, st) ==
    /\ ~(st = "ssdp:all" /\ rec.SILENT = TRUE)
    /\ (rec.ST = st \/ st = "ssdp:all")

\* a record of self.known answers a search for st
Matches(rec, st) ==
    /\ rec.MANIFESTATION # "remote"
    /\ ~(st = "ssdp:all" /\ rec.SILENT = TRUE)
    /\ (rec.ST = st \/ st = "ssdp:all")

\* reactor.callLater(delay, self.send_it, response, destination, delay, usn)
callLater(s, delay, response, destination, usn) ==
    [s EXCEPT !.calls = Append(@,
        [due |-> now + delay, delay |-> delay, dest |-> destination,
         usn |-> usn, response |-> response])]

\* the loop of discoveryRequest over list(self.known.values()) from the i-th
\* value on: the set of the states it can end in, one for each draw of the
\* random delays
RECURSIVE discoveryScan(_, _, _, _, _)
discoveryScan(s, headers, host, port, i) ==
    IF i > Len(s.known) THEN {s}
    ELSE LET rec == s.known[i]
         IN IF ~Matches(rec, headers["st"])
            THEN discoveryScan(s, headers, host, port, i + 1)
            ELSE IF ~Has(headers, "mx") THEN {Raise(s, "KeyError")}
            ELSE LET mx == ParseInt(headers["mx"])
                 IN IF ~mx.ok \/ RandInt(0, mx.val) = {}
                    THEN {Raise(s, "ValueError")}
                    ELSE UNION {discoveryScan(
                                    callLater(s, delay, ResponseHeaders(rec),
                                              <<host, port>>, rec.USN),
                                    headers, host, port, i + 1)
                                : delay \in RandInt(0, mx.val)}

discoveryRequest(s, headers, host, port) ==
    IF ~Has(headers, "st") THEN {Raise(s, "KeyError")}
    ELSE LET s1 == dispatch_event(s, "log", "")
         IN IF ipv6 /\ ~Has(headers, "host") THEN {Raise(s1, "KeyError")}
            ELSE IF ipv6 /\ ~Contains(Lower(Strip(headers["host"])), SSDP_ADDR6)
            THEN {s1}
            ELSE discoveryScan(s1, headers, host, port, 1)

\* datagramReceived from the dispatch on the command on; cmd is the first
\* line split at blanks
datagramReceived(s, cmd, headers, host, port) ==
    LET outs == IF cmd[1] \in {"M-SEARCH", "NOTIFY"} /\ Len(cmd) < 2
                THEN {Raise(s, "IndexError")}
                ELSE IF cmd[1] = "M-SEARCH" /\ cmd[2] = "*"
                THEN discoveryRequest(s, headers, host, port)
                ELSE IF cmd[1] = "NOTIFY" /\ cmd[2] = "*"
                THEN {notifyReceived(s, headers, host)}
                ELSE {s}
    IN {IF o.raised # "none" THEN o
        ELSE dispatch_event(o, "datagram_received",
                            IF Has(headers, "usn") THEN headers["usn"] ELSE "")
        : o \in outs}

LinkLocalPrefix == <<"f","e","8","0">>

\* send_it: a failure of either write is caught and logged
send_it(s, response, destination, delay, usn) ==
    LET viaDummy == ipv6 /\ StartsWith(destination[1], LinkLocalPrefix)
    IN IF viaDummy /\ s.dummy_socket = "none" THEN s
       ELSE LET s1 == IF viaDummy
                      THEN write(s, "dummy_socket", "RESPONSE", "", usn,
                                 destination, response)
                      ELSE s
            IN IF s1.transport = "none" THEN s1
               ELSE write(s1, "transport", "RESPONSE", "", usn, destination, response)

(***************************************************************************)
(* Periodic tasks and shutdown.                                            *)
(***************************************************************************)
RECURSIVE resendScan(_, _)
resendScan(s, i) ==
    IF i > Len(s.known) THEN s
    ELSE resendScan(IF s.known[i].MANIFESTATION = "local"
                    THEN doNotify(s, s.known[i].USN) ELSE s, i + 1)

resendNotify(s) == resendScan(s, 1)

\* a sweep that looks at every record
Examined_whatever_manifestation(rec) == TRUE

\* check_valid looks at a record when this holds
Examined(rec) == rec.MANIFESTATION # "local"

\* an expiry test with a grace ten times too long
Expired_long_grace(last_seen, expiry, t) == last_seen + expiry + 10 * ExpiryGrace < t

\* check_valid expires a record seen last at last_seen with lease expiry
Expired(last_seen, expiry, t) == last_seen + expiry + ExpiryGrace < t

\* the first loop of check_valid from the i-th key on; removable is the list
\* built so far
RECURSIVE checkScan(_, _, _)
checkScan(s, i, removable) ==
    IF i > Len(s.known) THEN [s |-> s, removable |-> removable]
    ELSE LET rec == s.known[i]
         IN IF ~Examined(rec) THEN checkScan(s, i + 1, removable)
            ELSE LET parts == Split(rec["CACHE-CONTROL"], "=")
                     expiry == ParseInt(parts[2])
                 IN IF Len(parts) # 2 \/ ~expiry.ok
                    THEN [s |-> Raise(s, "ValueError"), removable |-> removable]
                    ELSE IF Expired(rec["last-seen"], expiry.val, now)
                    THEN checkScan(IF rec.ST = RootDevice
                                   THEN dispatch_event(s, "removed_device", rec.USN)
                                   ELSE s,
                                   i + 1, Append(removable, rec.USN))
                    ELSE checkScan(s, i + 1, removable)

check_valid(s) ==
    LET r == checkScan(s, 1, <<>>)
    IN IF r.s.raised # "none" THEN r.s
       ELSE [r.s EXCEPT !.known =
                SelectSeq(@, LAMBDA rec : rec.USN \notin Range(r.removable))]

RECURSIVE byebyeScan(_, _)
byebyeScan(s, i) ==
    IF i > Len(s.known) THEN s
    ELSE byebyeScan(IF s.known[i].MANIFESTATION = "local"
                    THEN doByebye(s, s.known[i].USN) ELSE s, i + 1)

\* a shutdown that leaves the delayed calls alone
shutdown_without_cancel(s) ==
    IF test THEN s
    ELSE LET s2 == byebyeScan([s EXCEPT !.resend_running = FALSE,
                                        !.check_running = FALSE], 1)
         IN IF ~ipv6 THEN s2
            ELSE IF s2.dummy_socket = "none" THEN Raise(s2, "AttributeError")
            ELSE [s2 EXCEPT !.dummy_socket = "none"]

shutdown(s) ==
    LET s1 == [s EXCEPT !.calls = <<>>]
    IN IF test THEN s1
       ELSE LET s2 == byebyeScan([s1 EXCEPT !.resend_running = FALSE,
                                            !.check_running = FALSE], 1)
            IN IF ~ipv6 THEN s2
               ELSE IF s2.dummy_socket = "none" THEN Raise(s2, "AttributeError")
               ELSE [s2 EXCEPT !.dummy_socket = "none"]


(***************************************************************************)
(* The state machine.                                                      *)
(***************************************************************************)
\* last_event after the events of one operation
RECURSIVE Record_events(_, _)
Record_events(le, evs) ==
    IF evs = <<>> THEN le
    ELSE Record_events(
            IF Head(evs).name \in {"new_device", "removed_device"}
            THEN [le EXCEPT ![Head(evs).usn] = Head(evs).name] ELSE le,
            Tail(evs))

\* the variables after an operation that took Cur to s2
Commit(s2) ==
    /\ Len(s2.root_devices) <= MaxRoot
    /\ known' = s2.known
    /\ root_devices' = s2.root_devices
    /\ calls' = s2.calls
    /\ transport' = s2.transport
    /\ dummy_socket' = s2.dummy_socket
    /\ resend_running' = s2.resend_running
    /\ check_running' = s2.check_running
    /\ last_event' = Record_events(last_event, s2.emitted)
    /\ callbacks' = s2.callbacks
    /\ UNCHANGED <<test, ipv6, data, parsed, cm>>

Init ==
    /\ test \in BOOLEAN
    /\ ipv6 \in BOOLEAN
    /\ known = <<>>
    /\ root_devices = <<>>
    /\ calls = <<>>
    /\ transport = IF test THEN "none" ELSE "real"
    /\ dummy_socket = IF ~test /\ ipv6 THEN "open" ELSE "none"
    /\ resend_running = ~test
    /\ check_running = ~test
    /\ now = 0
    /\ ticks = 0
    /\ last_event = [u \in USNs |-> "none"]
    /\ callbacks = [name \in Channels |-> <<>>]
    /\ data = NoData
    /\ parsed = NoData
    /\ cm = NoServer

\* the hosts a caller of register passes
RegisterHosts == IF ipv6 THEN {NoneHost, Host4, Host6LL} ELSE {NoneHost}

\* the peers M-SEARCH requests come from
PeerHosts == IF ipv6 THEN {Host6LL, Host6} ELSE {Peer4}

\* the peer NOTIFY messages come from
NotifyPeers == IF ipv6 THEN {Host6} ELSE {Peer4}

RegisterArgs(manifestations, silents) ==
    {MkRecord(manifestation, usn, st, Location, ServerId, cache_control, silent, host, now)
     : manifestation \in manifestations, usn \in USNs, st \in STs,
       cache_control \in IF manifestations = {"local"} THEN {MaxAge10} ELSE CacheControls,
       silent \in silents, host \in RegisterHosts}

\* a call of register with the arguments a
RegisterCall(a) ==
    /\ Commit(register(Cur, a.MANIFESTATION, a.USN, a.ST, a.LOCATION, a.SERVER,
                       a["CACHE-CONTROL"], a.SILENT, a.HOST))
    /\ UNCHANGED <<now, ticks>>

\* a call of register by a device server
Register == \E a \in RegisterArgs({"local"}, {FALSE}) : RegisterCall(a)

\* a call of register by a device server at start-up, once for a USN, also
\* for a silent record
RegisterLocal ==
    \E a \in RegisterArgs({"local"}, BOOLEAN) :
        now = 0 /\ ~isKnown(known, a.USN) /\ RegisterCall(a)

\* a call of unRegister by the registrar
UnRegister ==
    \E usn \in USNs :
        /\ Commit(unRegister(Cur, usn))
        /\ UNCHANGED <<now, ticks>>

NotifyHeaders_in(nts, usn, nt, cc) ==
    [k \in {"nts", "usn", "nt", "location", "server", "cache-control"} |->
        CASE k = "nts" -> nts
          [] k = "usn" -> usn
          [] k = "nt" -> nt
          [] k = "location" -> Location
          [] k = "server" -> ServerId
          [] k = "cache-control" -> cc]

NotifyHeaderSets ==
    {NotifyHeaders_in("ssdp:alive", usn, nt, cc)
        : usn \in USNs, nt \in STs, cc \in CacheControls}
    \cup {NotifyHeaders_in("ssdp:byebye", usn, RootDevice, MaxAge10) : usn \in USNs}

MXValues == {<<DigitChars[m + 1]>> : m \in 0..MaxMX}

SearchHeaderSets ==
    {[k \in {"host", "man", "mx", "st"} |->
        CASE k = "host" -> hh
          [] k = "man" -> "ssdp:discover"
          [] k = "mx" -> mx
          [] k = "st" -> st]
     : hh \in {HostHeader4, HostHeader6}, mx \in MXValues,
       st \in STs \cup {"ssdp:all"}}

\* a NOTIFY arrives
NotifyArrives ==
    \E headers \in NotifyHeaderSets, host \in NotifyPeers, port \in PeerPorts :
    \E s2 \in datagramReceived(Cur, <<"NOTIFY", "*", "HTTP/1.1">>, headers, host, port) :
        /\ Commit(s2)
        /\ UNCHANGED <<now, ticks>>

\* an M-SEARCH arrives, at a moment when no response to an earlier one is
\* pending
SearchArrives ==
    /\ calls = <<>>
    /\ \E headers \in SearchHeaderSets, host \in PeerHosts, port \in PeerPorts :
       \E s2 \in datagramReceived(Cur, <<"M-SEARCH", "*", "HTTP/1.1">>, headers, host, port) :
          /\ Commit(s2)
          /\ UNCHANGED <<now, ticks>>

\* a NOTIFY ssdp:alive for a USN not seen before arrives, before any
\* M-SEARCH
AliveArrives ==
    /\ now = 0
    /\ calls = <<>>
    /\ \E usn \in USNs, nt \in STs, host \in NotifyPeers, port \in PeerPorts :
       \E s2 \in datagramReceived(Cur, <<"NOTIFY", "*", "HTTP/1.1">>,
                                  NotifyHeaders_in("ssdp:alive", usn, nt, MaxAge10),
                                  host, port) :
          /\ ~isKnown(known, usn)
          /\ Commit(s2)
          /\ UNCHANGED <<now, ticks>>

\* the reactor runs a delayed call that is due
SendIt ==
    \E i \in DOMAIN calls :
        /\ calls[i].due <= now
        /\ LET c == calls[i]
               rest == [j \in 1..(Len(calls) - 1) |->
                           IF j < i THEN calls[j] ELSE calls[j + 1]]
           IN Commit(send_it([Cur EXCEPT !.calls = rest], c.response, c.dest,
                             c.delay, c.usn))
        /\ UNCHANGED <<now, ticks>>

\* check_valid runs: check_valid_loop fires, or a test calls it; a loop
\* whose call raises stops running
CheckValid ==
    /\ test \/ check_running
    /\ LET s2 == check_valid(Cur)
       IN Commit(IF s2.raised # "none" THEN [s2 EXCEPT !.check_running = FALSE] ELSE s2)
    /\ UNCHANGED <<now, ticks>>

\* resendNotify runs: resend_notify_loop fires, or a test calls it
ResendNotify ==
    /\ test \/ resend_running
    /\ Commit(resendNotify(Cur))
    /\ UNCHANGED <<now, ticks>>

Shutdown ==
    /\ Commit(shutdown(Cur))
    /\ UNCHANGED <<now, ticks>>

\* the first datagram arrives and is parsed
ReceiveData ==
    /\ data = NoData
    /\ \E d \in DatagramsIn :
          /\ data' = d
          /\ parsed' \in parseDatagram(d)
    /\ UNCHANGED <<test, ipv6, known, root_devices, calls, transport,
                   dummy_socket, resend_running, check_running, now, ticks,
                   last_event, callbacks, cm>>

\* the number of subscriptions held
RECURSIVE Subscriptions(_)
Subscriptions(names) ==
    IF names = {} THEN 0
    ELSE LET name == CHOOSE n \in names : TRUE
         IN Len(callbacks[name]) + Subscriptions(names \ {name})

\* a caller subscribes an observer to a channel
Subscribe ==
    \E name \in Channels, observer \in Observers :
        /\ Subscriptions(Channels) < MaxObservers
        /\ Commit(subscribe(Cur, name, observer))
        /\ UNCHANGED <<now, ticks>>

\* a caller unsubscribes an observer from a channel
Unsubscribe ==
    \E name \in Channels, observer \in Observers :
        /\ Commit(unsubscribe(Cur, name, observer))
        /\ UNCHANGED <<now, ticks>>

\* the clock advances by d; the reactor runs a delayed call no later than
\* it is due
Advance(d) ==
    /\ ticks < MaxTicks
    /\ \A i \in DOMAIN calls : now + d <= calls[i].due
    /\ now' = now + d
    /\ ticks' = ticks + 1
    /\ UNCHANGED <<test, ipv6, known, root_devices, calls, transport,
                   dummy_socket, resend_running, check_running, last_event,
                   callbacks, data, parsed, cm>>

\* the clock of Spec: the lease and grace of max-age=10 pass, then one
\* second more, and so on
Tick == Advance(IF ticks % 2 = 0 THEN 10 + ExpiryGrace ELSE 1)

\* the clock of SpecSearch: one second passes while a response is pending
TickSecond == calls # <<>> /\ Advance(1)

(***************************************************************************)
(* Spec: the life of the registry.  Records come by register and by NOTIFY *)
(* and go by unRegister, byebye and the sweep.                             *)
(***************************************************************************)
Next ==
    \/ Register
    \/ UnRegister
    \/ NotifyArrives
    \/ CheckValid
    \/ Shutdown
    \/ Tick

Spec == Init /\ [][Next]_vars

(***************************************************************************)
(* SpecSearch: discovery.  Local records answer M-SEARCH requests by       *)
(* delayed calls of send_it.                                               *)
(***************************************************************************)
NextSearch ==
    \/ RegisterLocal
    \/ AliveArrives
    \/ SearchArrives
    \/ SendIt
    \/ ResendNotify
    \/ Shutdown
    \/ TickSecond

SpecSearch == Init /\ [][NextSearch]_vars

(***************************************************************************)
(* SpecBus: the observers.  Callers subscribe and unsubscribe while        *)
(* records are registered and unregistered.                                *)
(***************************************************************************)
NextBus ==
    \/ Subscribe
    \/ Unsubscribe
    \/ RegisterLocal
    \/ UnRegister

SpecBus == Init /\ [][NextBus]_vars

(***************************************************************************)
(* SpecCodec: the parsing of an inbound datagram.                          *)
(***************************************************************************)
NextCodec == ReceiveData

SpecCodec == Init /\ [][NextCodec]_vars

(***************************************************************************)
(* SpecConnections: the connections of a ConnectionManagerServer.          *)
(***************************************************************************)
\* what an operation of the connection manager leaves behind; an exception
\* out of the looping call stops the loop
CommitConnections(c2, looped) ==
    /\ cm' = [c2 EXCEPT !.raised = "none",
                        !.loop_running = IF looped /\ c2.raised # "none"
                                         THEN FALSE ELSE @]
    /\ UNCHANGED <<test, ipv6, known, root_devices, calls, transport,
                   dummy_socket, resend_running, check_running, now, ticks,
                   last_event, callbacks, data, parsed>>

\* the device constructs its ConnectionManagerServer
NewConnectionManager ==
    /\ cm.device_type = "none"
    /\ \E device_type \in DeviceTypes :
           CommitConnections(ConnectionManagerServer(device_type), FALSE)

\* upnp_PrepareForConnection with a matching protocol info
PrepareForConnection ==
    /\ cm.device_type # "none"
    /\ cm.next_connection_id <= MaxConnections
    /\ CommitConnections(add_connection(cm, now), FALSE)

\* upnp_ConnectionComplete for a connection id handed out before
ConnectionComplete ==
    \E id \in 1..MaxConnections :
        /\ id < cm.next_connection_id
        /\ CommitConnections(remove_connection(cm, id), FALSE)

\* a state variable of an AVTransport instance is updated
TouchAVTransport ==
    \E id \in DOMAIN cm.av_transport, name \in AVTransportVariables :
        /\ cm.av_transport[id][name] # now
        /\ CommitConnections(
               [cm EXCEPT !.av_transport[id][name] = now], FALSE)

\* a state variable of a RenderingControl instance is updated
TouchRenderingControl ==
    \E id \in DOMAIN cm.rendering_control,
       name \in RenderingControlVariables :
        /\ cm.rendering_control[id][name] # now
        /\ CommitConnections(
               [cm EXCEPT !.rendering_control[id][name] = now], FALSE)

\* the looping call runs remove_lingering_connections
RemoveLingering ==
    /\ cm.loop_running
    /\ CommitConnections(remove_lingering_connections(cm, now), TRUE)

\* the clock of SpecConnections: the 300 seconds pass, then one second
\* more, and so on
TickLinger ==
    /\ cm.device_type # "none"
    /\ Advance(IF ticks % 2 = 0 THEN LingerSeconds ELSE 1)

NextConnections ==
    \/ NewConnectionManager
    \/ PrepareForConnection
    \/ ConnectionComplete
    \/ TouchAVTransport
    \/ TouchRenderingControl
    \/ RemoveLingering
    \/ TickLinger

SpecConnections == Init /\ [][NextConnections]_vars

(***************************************************************************)
(* What the claims speak of.                                               *)
(***************************************************************************)
DeviceEvents == {"new_device", "removed_device"}

\* the names of the new_device and removed_device events of evs for usn
EventsFor(evs, usn) ==
    LET es == SelectSeq(evs, LAMBDA e : e.name \in DeviceEvents /\ e.usn = usn)
    IN [i \in 1..Len(es) |-> es[i].name]

\* the USNs of the records of d whose ST is upnp:rootdevice, in d's order
RootsOf(d) ==
    LET rs == SelectSeq(d, LAMBDA rec : rec.ST = RootDevice)
    IN [i \in 1..Len(rs) |-> rs[i].USN]

NotifyCmd == <<"NOTIFY", "*", "HTTP/1.1">>
SearchCmd == <<"M-SEARCH", "*", "HTTP/1.1">>

\* the outcomes of every inbound NOTIFY in the current state
NotifyOutcomes ==
    UNION {datagramReceived(Cur, NotifyCmd, headers, host, port)
           : headers \in NotifyHeaderSets, host \in NotifyPeers, port \in PeerPorts}

\* the outcomes of every call of register in the current state
RegisterOutcomes ==
    {register(Cur, a.MANIFESTATION, a.USN, a.ST, a.LOCATION, a.SERVER,
              a["CACHE-CONTROL"], a.SILENT, a.HOST)
     : a \in RegisterArgs({"local", "remote"}, BOOLEAN)}

\* the outcomes of every operation on the registry in the current state
RegistryOutcomes ==
    RegisterOutcomes \cup {unRegister(Cur, usn) : usn \in USNs}
        \cup NotifyOutcomes \cup {check_valid(Cur), shutdown(Cur)}

\* the lease of a record: the N of CACHE-CONTROL max-age=N
HasLease(rec) ==
    LET parts == Split(rec["CACHE-CONTROL"], "=")
    IN Len(parts) = 2 /\ ParseInt(parts[2]).ok

Lease(rec) == ParseInt(Split(rec["CACHE-CONTROL"], "=")[2]).val

----------------------------------------------------------------------------
\* C1: in every reachable state root_devices is exactly the list of the USNs
\* of known whose ST is upnp:rootdevice, in insertion order, each once.
C1_RootDevicesIsProjection == root_devices = RootsOf(known)

----------------------------------------------------------------------------
\* every local record of the current registry is in s2, the same but for
\* its last-seen
LocalsUntouched(s2) ==
    \A i \in DOMAIN known :
        known[i].MANIFESTATION = "local" =>
            /\ isKnown(s2.known, known[i].USN)
            /\ [GetItem(s2.known, known[i].USN)
                    EXCEPT !["last-seen"] = known[i]["last-seen"]] = known[i]

\* C2: no inbound datagram and no sweep removes a local record or changes a
\* field of it other than last-seen: only unRegister by the registrar and
\* shutdown remove one.
C2_OnlyRegistrarRemovesLocal ==
    /\ \A s2 \in NotifyOutcomes : LocalsUntouched(s2)
    /\ LocalsUntouched(check_valid(Cur))

----------------------------------------------------------------------------
\* the events evs go on alternating per USN after the last events le
RECURSIVE Alternate(_, _)
Alternate(le, evs) ==
    IF evs = <<>> THEN TRUE
    ELSE LET e == Head(evs)
         IN IF e.name \notin DeviceEvents THEN Alternate(le, Tail(evs))
            ELSE /\ e.name = "new_device" => le[e.usn] # "new_device"
                 /\ e.name = "removed_device" => le[e.usn] = "new_device"
                 /\ Alternate([le EXCEPT ![e.usn] = e.name], Tail(evs))

\* C3: for every USN the new_device and removed_device events strictly
\* alternate, starting with new_device, over every sequence of register,
\* unRegister, inbound NOTIFY and sweep.
C3_EventsAlternate == \A s2 \in RegistryOutcomes : Alternate(last_event, s2.emitted)

----------------------------------------------------------------------------
\* C4: when an observer is invoked for new_device of a USN, root_devices
\* already holds the USN; when it is invoked for removed_device, root_devices
\* and the registry hold it no longer.
C4_EventsAtomicWithRootDevices ==
    \A s2 \in RegistryOutcomes : \A i \in DOMAIN s2.emitted :
        LET e == s2.emitted[i]
        IN /\ e.name = "new_device" => e.in_root
           /\ e.name = "removed_device" => ~e.in_root /\ ~e.in_known

----------------------------------------------------------------------------
\* C5: register called twice with the same arguments leaves known and
\* root_devices as one call does (last-seen apart) and emits at most one
\* new_device for the USN in total.
C5_RegisterIdempotent ==
    \A a \in RegisterArgs({"local", "remote"}, BOOLEAN) :
        LET s1 == register(Cur, a.MANIFESTATION, a.USN, a.ST, a.LOCATION, a.SERVER,
                           a["CACHE-CONTROL"], a.SILENT, a.HOST)
            s2 == register(s1, a.MANIFESTATION, a.USN, a.ST, a.LOCATION, a.SERVER,
                           a["CACHE-CONTROL"], a.SILENT, a.HOST)
        IN s1.raised = "none" =>
            /\ s2.known = s1.known
            /\ s2.root_devices = s1.root_devices
            /\ Len(EventsFor(s2.emitted, a.USN)) <= 1

----------------------------------------------------------------------------
\* the events for x.USN of unRegister(x.USN) followed by register(x)
ReRegisterEvents(x) ==
    LET s1 == unRegister(Cur, x.USN)
        s2 == IF s1.raised # "none" THEN s1
              ELSE register(s1, x.MANIFESTATION, x.USN, x.ST, x.LOCATION, x.SERVER,
                            x["CACHE-CONTROL"], x.SILENT, x.HOST)
    IN [raised |-> s2.raised, events |-> EventsFor(s2.emitted, x.USN)]

\* C6 as stated: for every registered record x, unRegister(x.usn) followed
\* by register(x) emits exactly one removed_device and then exactly one
\* new_device for the USN.
C6_ReRegisterEmitsPair ==
    \A i \in DOMAIN known :
        ReRegisterEvents(known[i]).events = <<"removed_device", "new_device">>

\* C6 as amended: for every registered record x whose ST is upnp:rootdevice,
\* unRegister(x.usn) followed by register(x) emits exactly one removed_device
\* and then exactly one new_device for the USN; for a record of any other ST
\* it emits neither.
C6_ReRegisterEmitsPairForRoot ==
    \A i \in DOMAIN known :
        /\ ReRegisterEvents(known[i]).raised = "none"
        /\ ReRegisterEvents(known[i]).events =
              IF known[i].ST = RootDevice
              THEN <<"removed_device", "new_device">> ELSE <<>>

\* a root device and another record are registered, the root device since
\* its new_device
C6_Witness ==
    /\ \E i \in DOMAIN known :
          /\ known[i].ST = RootDevice
          /\ last_event[known[i].USN] = "new_device"
          /\ ReRegisterEvents(known[i]).events = <<"removed_device", "new_device">>
    /\ \E i \in DOMAIN known : known[i].ST # RootDevice

----------------------------------------------------------------------------
\* every remote record of the registry d with a lease was seen no longer
\* ago than its lease and the grace
RemotesFresh(d) ==
    \A i \in DOMAIN d :
        d[i].MANIFESTATION = "remote" /\ HasLease(d[i]) =>
            now - d[i]["last-seen"] <= Lease(d[i]) + ExpiryGrace

----------------------------------------------------------------------------
\* the remote records the sweep is to remove at the time now
Stale(rec) ==
    /\ rec.MANIFESTATION = "remote"
    /\ HasLease(rec)
    /\ rec["last-seen"] + Lease(rec) + ExpiryGrace < now

\* C8: a run of check_valid at time now removes exactly the remote records
\* with last_seen + N + 30 < now, keeps every other record, and emits
\* removed_device exactly for the removed records whose ST is upnp:rootdevice.
C8_SweepRemovesExactlyStale ==
    LET s2 == check_valid(Cur)
        stale == SelectSeq(known, LAMBDA rec : Stale(rec))
    IN /\ s2.known = SelectSeq(known, LAMBDA rec : ~Stale(rec))
       /\ [i \in DOMAIN s2.emitted |-> <<s2.emitted[i].name, s2.emitted[i].usn>>]
             = [i \in 1..Len(RootsOf(stale)) |-> <<"removed_device", RootsOf(stale)[i]>>]

----------------------------------------------------------------------------
\* C9: for any clock value and any registry, a run of check_valid removes no
\* record whose manifestation is local and emits no removed_device for one.
C9_SweepKeepsLocals ==
    LET s2 == check_valid(Cur)
    IN \A i \in DOMAIN known :
          known[i].MANIFESTATION = "local" =>
              /\ isKnown(s2.known, known[i].USN)
              /\ GetItem(s2.known, known[i].USN) = known[i]
              /\ EventsFor(s2.emitted, known[i].USN) = <<>>

\* a sweep that removes a remote record while a local record seen longer ago
\* than the lease and the grace stays
C9_Witness ==
    LET s2 == check_valid(Cur)
    IN /\ s2.known # known
       /\ \E i \in DOMAIN known :
             /\ known[i].MANIFESTATION = "local"
             /\ known[i]["last-seen"] + Lease(known[i]) + ExpiryGrace < now
             /\ isKnown(s2.known, known[i].USN)

----------------------------------------------------------------------------
\* the state send_it runs in when the reactor fires the i-th delayed call
AtCall(i) ==
    [Cur EXCEPT !.calls = [j \in 1..(Len(calls) - 1) |->
                              IF j < i THEN calls[j] ELSE calls[j + 1]]]

\* what the i-th delayed call writes when the reactor fires it
SentByCall(i) ==
    send_it(AtCall(i), calls[i].response, calls[i].dest, calls[i].delay,
            calls[i].usn).sent

\* the delayed calls an M-SEARCH with the integer MX header adds have a
\* delay within 0..MX, are due that long after now and go to the requester
ScheduledWithinMX ==
    \A headers \in SearchHeaderSets, host \in PeerHosts, port \in PeerPorts :
    \A s2 \in datagramReceived(Cur, SearchCmd, headers, host, port) :
    \A i \in DOMAIN s2.calls :
        i > Len(calls) =>
            /\ s2.calls[i].delay \in 0..ParseInt(headers["mx"]).val
            /\ s2.calls[i].due = now + s2.calls[i].delay
            /\ s2.calls[i].dest = <<host, port>>

\* C10 as stated: every response scheduled for an M-SEARCH with MX = M has a
\* delay d in 0..M and is sent to the requester's (host, port) d seconds
\* after receipt unless shutdown cancels it first.
C10_ResponseSentWithinMX ==
    /\ ScheduledWithinMX
    /\ \A i \in DOMAIN calls :
          /\ now <= calls[i].due
          /\ \E k \in DOMAIN SentByCall(i) : SentByCall(i)[k].dest = calls[i].dest
    /\ shutdown(Cur).calls = <<>>

\* C10 as amended: every response scheduled for an M-SEARCH with MX = M has
\* a delay d in 0..M, and send_it runs for it d seconds after receipt unless
\* shutdown cancels it first; send_it writes the response to the requester's
\* (host, port) on the transport when the engine has one, after a copy from
\* the dummy socket when the engine is in IPv6 mode and the requester's
\* address starts with fe80; with no transport, or with the dummy socket
\* missing for such a requester, it sends nothing.
C10_ResponseDelayWithinMX ==
    /\ ScheduledWithinMX
    /\ \A i \in DOMAIN calls :
          LET c == calls[i]
              linklocal == ipv6 /\ StartsWith(c.dest[1], LinkLocalPrefix)
              out == SentByCall(i)
          IN /\ now <= c.due
             /\ c.due - c.delay <= now
             /\ \A k \in DOMAIN out :
                   out[k].dest = c.dest /\ out[k].headers = c.response
             /\ [k \in DOMAIN out |-> out[k].via] =
                   IF linklocal /\ dummy_socket = "none" THEN <<>>
                   ELSE (IF linklocal THEN <<"dummy_socket">> ELSE <<>>)
                        \o (IF transport = "none" THEN <<>> ELSE <<"transport">>)
    /\ shutdown(Cur).calls = <<>>

\* a response with the delay of one second is due and goes out on the
\* transport
C10_Witness ==
    \E i \in DOMAIN calls :
        /\ calls[i].delay = 1
        /\ calls[i].due = now
        /\ \E k \in DOMAIN SentByCall(i) :
              SentByCall(i)[k].via = "transport" /\ SentByCall(i)[k].dest = calls[i].dest

----------------------------------------------------------------------------
\* the delayed calls an operation that ended in s2 added
NewCalls(s2) == SubSeq(s2.calls, Len(calls) + 1, Len(s2.calls))

\* the number of responses for usn among the delayed calls cs
ResponsesFor(cs, usn) == Cardinality({i \in DOMAIN cs : cs[i].usn = usn})

\* the records the claim says a search for st is answered for
Answers(rec, st) ==
    /\ rec.MANIFESTATION = "local"
    /\ (st = "ssdp:all" /\ rec.SILENT = FALSE) \/ st = rec.ST

\* the engine takes an M-SEARCH with these headers up: in IPv6 mode only
\* when its HOST header names the IPv6 group
TakenUp(headers) ==
    ipv6 => Contains(Lower(Strip(headers["host"])), SSDP_ADDR6)

\* every record is answered once when it is to be answered and headers are
\* among hs, and never otherwise
AnsweredExactly(hs) ==
    \A headers \in SearchHeaderSets, host \in PeerHosts, port \in PeerPorts :
    \A s2 \in datagramReceived(Cur, SearchCmd, headers, host, port) :
        /\ \A i \in DOMAIN known :
              ResponsesFor(NewCalls(s2), known[i].USN) =
                 IF headers \in hs /\ Answers(known[i], headers["st"]) THEN 1 ELSE 0
        /\ \A j \in DOMAIN NewCalls(s2) : isKnown(known, NewCalls(s2)[j].usn)

\* C11 as stated: for an M-SEARCH with search target s, exactly one response
\* is scheduled for exactly the local records r with (s = ssdp:all and r not
\* silent) or s = r.ST, and none for any remote record.
C11_SearchAnsweredByLocals == AnsweredExactly(SearchHeaderSets)

\* C11 as amended: for an M-SEARCH with search target s and an integer MX
\* that the engine takes up (in IPv6 mode: whose HOST header names ff05::c),
\* exactly one response is scheduled for exactly the local records r with
\* (s = ssdp:all and r not silent) or s = r.ST, and none for any remote
\* record; for an M-SEARCH it does not take up none is scheduled at all.
C11_SearchAnsweredByLocalsWhenTakenUp ==
    AnsweredExactly({headers \in SearchHeaderSets : TakenUp(headers)})

\* a remote record and a silent local record of one ST: a search for the ST
\* schedules one response, for the local record
C11_Witness ==
    \E i, j \in DOMAIN known :
        /\ known[i].MANIFESTATION = "remote"
        /\ known[j].MANIFESTATION = "local" /\ known[j].SILENT = TRUE
        /\ known[i].ST = known[j].ST
        /\ \E headers \in SearchHeaderSets, host \in PeerHosts, port \in PeerPorts :
           \E s2 \in datagramReceived(Cur, SearchCmd, headers, host, port) :
              /\ headers["st"] = known[j].ST
              /\ Len(NewCalls(s2)) = 1
              /\ NewCalls(s2)[1].usn = known[j].USN

----------------------------------------------------------------------------
\* the outcome of an inbound NOTIFY with these headers from host
NotifyOutcome(headers, host) ==
    CHOOSE s2 \in datagramReceived(Cur, NotifyCmd, headers, host, 51000) : TRUE

\* C12: an inbound NOTIFY ssdp:alive whose USN is not in the registry creates
\* a remote record for the USN, HOST the sending peer's host and ST, LOCATION,
\* SERVER, CACHE-CONTROL from the nt, location, server, cache-control
\* headers, sends no NOTIFY, and emits new_device iff nt is upnp:rootdevice.
C12_AliveCreatesRemote ==
    \A headers \in NotifyHeaderSets, host \in NotifyPeers :
        headers["nts"] = "ssdp:alive" /\ ~isKnown(known, headers["usn"]) =>
            LET s2 == NotifyOutcome(headers, host)
            IN /\ s2.raised = "none"
               /\ s2.known = Append(known,
                     MkRecord("remote", headers["usn"], headers["nt"],
                              headers["location"], headers["server"],
                              headers["cache-control"], FALSE, host, now))
               /\ s2.sent = <<>>
               /\ EventsFor(s2.emitted, headers["usn"]) =
                     IF headers["nt"] = RootDevice THEN <<"new_device">> ELSE <<>>

\* a remote root device learnt from a NOTIFY is in the registry since its
\* new_device, and the other USN is still unknown
C12_Witness ==
    /\ \E i \in DOMAIN known :
          /\ known[i].MANIFESTATION = "remote"
          /\ known[i].ST = RootDevice
          /\ known[i].HOST \in NotifyPeers
          /\ last_event[known[i].USN] = "new_device"
    /\ \E usn \in USNs : ~isKnown(known, usn)

----------------------------------------------------------------------------
\* C13: an inbound NOTIFY ssdp:byebye whose USN is not in the registry
\* leaves the registry and root_devices unchanged and emits no device event;
\* one for a known USN removes exactly that record and emits removed_device
\* iff its ST is upnp:rootdevice.
C13_ByebyeRemovesKnown ==
    \A headers \in NotifyHeaderSets, host \in NotifyPeers :
        headers["nts"] = "ssdp:byebye" =>
            LET s2 == NotifyOutcome(headers, host)
                usn == headers["usn"]
            IN IF ~isKnown(known, usn)
               THEN /\ s2.known = known
                    /\ s2.root_devices = root_devices
                    /\ \A i \in DOMAIN s2.emitted : s2.emitted[i].name \notin DeviceEvents
               ELSE /\ s2.known = SelectSeq(known, LAMBDA rec : rec.USN # usn)
                    /\ EventsFor(s2.emitted, usn) =
                          IF GetItem(known, usn).ST = RootDevice
                          THEN <<"removed_device">> ELSE <<>>
                    /\ \A i \in DOMAIN s2.emitted :
                          s2.emitted[i].name \in DeviceEvents => s2.emitted[i].usn = usn

\* a root device and another record are known; the byebye for the root
\* device leaves the other record and emits removed_device
C13_Witness ==
    \E i, j \in DOMAIN known :
        /\ known[i].ST = RootDevice /\ known[j].ST # RootDevice
        /\ LET s2 == NotifyOutcome(
                        NotifyHeaders_in("ssdp:byebye", known[i].USN, RootDevice, MaxAge10),
                        CHOOSE h \in NotifyPeers : TRUE)
           IN s2.known = <<known[j]>> /\ EventsFor(s2.emitted, known[i].USN) = <<"removed_device">>

----------------------------------------------------------------------------
\* a NOTIFY frame that has no NTS header line
NotifyWithoutNTS ==
    [k \in {"usn", "nt", "location", "server", "cache-control"} |->
        NotifyHeaders_in("ssdp:alive", "uuid:a", RootDevice, MaxAge10)[k]]

\* a frame whose command is neither M-SEARCH nor NOTIFY
UnknownCmd == <<"GET", "/", "HTTP/1.1">>

\* inbound frames: the command and the header map datagramReceived gets
InboundFrames ==
    {[cmd |-> NotifyCmd, headers |-> h] : h \in NotifyHeaderSets \cup {NotifyWithoutNTS}}
    \cup {[cmd |-> SearchCmd, headers |-> h] : h \in SearchHeaderSets}
    \cup {[cmd |-> UnknownCmd, headers |-> [k \in {"host"} |-> HostHeader4]]}

\* C14: for every inbound frame datagram_received is emitted exactly once,
\* after every mutation and every other event the frame causes, also for a
\* frame with an unknown command.
C14_DatagramReceivedOnceAndLast ==
    \A f \in InboundFrames, host \in NotifyPeers, port \in PeerPorts :
    \A s2 \in datagramReceived(Cur, f.cmd, f.headers, host, port) :
        /\ Cardinality({i \in DOMAIN s2.emitted :
                           s2.emitted[i].name = "datagram_received"}) = 1
        /\ s2.emitted[Len(s2.emitted)].name = "datagram_received"

----------------------------------------------------------------------------
\* C15: shutdown cancels every delayed discovery response pending when it is
\* called, whatever their number and delays: none of them is left to be sent
\* after shutdown returns, and shutdown itself sends none.
C15_ShutdownCancelsResponses ==
    LET s2 == shutdown(Cur)
    IN /\ s2.calls = <<>>
       /\ \A k \in DOMAIN s2.sent : s2.sent[k].kind # "RESPONSE"

\* two responses with different delays are pending, one of them not yet due
C15_Witness ==
    /\ Len(calls) = 2
    /\ calls[1].delay # calls[2].delay
    /\ \E i \in DOMAIN calls : now < calls[i].due

----------------------------------------------------------------------------
\* the datagrams d without their header lines
Datagrams(d) ==
    [k \in DOMAIN d |-> [kind |-> d[k].kind, nts |-> d[k].nts, usn |-> d[k].usn,
                         dest |-> d[k].dest]]

\* one NOTIFY ssdp:byebye to the group for every local record, in the order
\* of the registry
ByebyePerLocal ==
    LET locals == SelectSeq(known, LAMBDA rec : rec.MANIFESTATION = "local")
    IN [k \in 1..Len(locals) |->
           [kind |-> "NOTIFY", nts |-> "ssdp:byebye", usn |-> locals[k].USN,
            dest |-> GroupDest]]

----------------------------------------------------------------------------
\* shutdown has been called: outside test mode resend_notify_loop runs from
\* the construction on and only shutdown stops it
ShutdownCalled == ~test /\ ~resend_running

\* C17: after shutdown the engine produces no further outbound traffic:
\* whatever datagram arrives or register call follows, no NOTIFY is sent and
\* no discovery response is scheduled or sent, and neither periodic task
\* fires again.
C17_QuietAfterShutdown ==
    ShutdownCalled =>
        /\ ~check_running
        /\ calls = <<>>
        /\ \A s2 \in RegisterOutcomes : s2.sent = <<>>
        /\ \A s2 \in NotifyOutcomes : s2.sent = <<>>
        /\ \A headers \in SearchHeaderSets, host \in PeerHosts, port \in PeerPorts :
           \A s2 \in datagramReceived(Cur, SearchCmd, headers, host, port) :
              NewCalls(s2) = <<>> /\ s2.sent = <<>>

----------------------------------------------------------------------------
\* the state an operation left, as the next operation finds it
Returned(s) ==
    [s EXCEPT !.emitted = <<>>, !.sent = <<>>, !.invoked = <<>>, !.raised = "none"]

\* C18: a second call of shutdown, in IPv4 and in IPv6 mode, raises no
\* error, sends no datagram and leaves the state as the first call left it.
C18_ShutdownIdempotent ==
    LET s1 == Returned(shutdown(Cur))
        s2 == shutdown(s1)
    IN s2 = s1

----------------------------------------------------------------------------
\* C19: no call of the public API propagates an error: unRegister of a USN
\* not in the registry returns normally and changes nothing and emits
\* nothing, and register returns normally for every host, also for host left
\* unset in IPv6 mode.
C19_ApiNeverRaises ==
    /\ \A usn \in USNs :
          /\ unRegister(Cur, usn).raised = "none"
          /\ ~isKnown(known, usn) => unRegister(Cur, usn) = Cur
    /\ \A s2 \in RegisterOutcomes : s2.raised = "none"
    /\ shutdown(Cur).raised = "none"

----------------------------------------------------------------------------
\* the invocations the claim asks for when the events evs are published:
\* for every event every observer of its channel, in the order of the list
RECURSIVE InvokedFor(_, _)
InvokedFor(s, evs) ==
    IF evs = <<>> THEN s.invoked
    ELSE InvokedFor(callback(s, Head(evs).name), Tail(evs))

\* C20: an observer added with subscribe is invoked for every event
\* published on its channel until it is unsubscribed, the observers of a
\* channel in registration order; unsubscribe removes only the first equal
\* observer and a second unsubscribe of the same observer changes nothing.
C20_SubscribersInvoked ==
    /\ \A s2 \in RegistryOutcomes : s2.invoked = InvokedFor(Cur, s2.emitted)
    /\ \A name \in Channels, observer \in Observers :
          LET s1 == unsubscribe(Cur, name, observer)
          IN /\ s1.callbacks[name] = ListRemove(callbacks[name], observer)
             /\ observer \notin Range(s1.callbacks[name]) =>
                   unsubscribe(s1, name, observer) = s1

----------------------------------------------------------------------------
\* a datagram is malformed: it lacks the blank line, or a header line of it
\* has no colon
Malformed(d) ==
    \/ ~d.terminated
    \/ \E i \in DOMAIN d.lines : d.lines[i] # <<>> /\ FirstAt(d.lines[i], ":") = 0

\* C21: a malformed inbound frame is dropped without an error: for a payload
\* without the CRLF CRLF terminator or with a header line without ':',
\* datagramReceived raises nothing and discards the line or frame.
C21_MalformedFrameDropped ==
    data # NoData /\ Malformed(data) => parsed.raised = "none"

----------------------------------------------------------------------------
\* s neither starts nor ends with a quote character
Dequoted(s) ==
    s = <<>> \/ (Head(s) \notin Range(QuoteChars) /\ s[Len(s)] \notin Range(QuoteChars))

\* C25: dequoting removes the whole run of leading and trailing quote
\* characters: every parsed header name and value neither starts nor ends
\* with ' or ", whatever mix and order of the two surrounds it, dequoting a
\* parsed value again changes nothing, names are lowercased and the case of
\* values is kept.
C25_DequotingRemovesRuns ==
    data # NoData /\ parsed.raised = "none" =>
        \A name \in DOMAIN parsed.headers :
            /\ Dequoted(name)
            /\ Dequoted(parsed.headers[name])
            /\ fix_string(parsed.headers[name], FALSE) = parsed.headers[name]
            /\ name = Lower(name)
            /\ Contains(parsed.headers[name], HeaderValue)

----------------------------------------------------------------------------
\* the header map h without the header k
Without(h, k) == [x \in DOMAIN h \ {k} |-> h[x]]

\* C22: an inbound NOTIFY or M-SEARCH that lacks a header its handler needs
\* (nts, usn, nt, location, server, cache-control; st, host) is dropped as one
\* message: no error leaves datagramReceived, the registry and root_devices
\* are unchanged and no response is scheduled.
C22_MissingHeaderDropped ==
    LET frames ==
          {[cmd |-> NotifyCmd, headers |-> Without(h, k)]
           : h \in {x \in NotifyHeaderSets : x["nts"] = "ssdp:alive"},
             k \in {"nts", "usn", "nt", "location", "server", "cache-control"}}
          \cup {[cmd |-> SearchCmd, headers |-> Without(h, k)]
                : h \in SearchHeaderSets, k \in {"st", "host"}}
    IN \A f \in frames, host \in NotifyPeers, port \in PeerPorts :
       \A s2 \in datagramReceived(Cur, f.cmd, f.headers, host, port) :
           /\ s2.raised = "none"
           /\ s2.known = known
           /\ s2.root_devices = root_devices
           /\ s2.calls = calls

----------------------------------------------------------------------------
\* C23: an M-SEARCH with no MX header is treated as MX = 0: every matching
\* local record still gets exactly one response, scheduled with delay 0, and
\* no error is raised.
C23_MissingMXIsZero ==
    \A headers \in SearchHeaderSets, host \in PeerHosts, port \in PeerPorts :
    \A s2 \in datagramReceived(Cur, SearchCmd, Without(headers, "mx"), host, port) :
        /\ s2.raised = "none"
        /\ \A i \in DOMAIN known :
              TakenUp(headers) /\ Answers(known[i], headers["st"]) =>
                  ResponsesFor(NewCalls(s2), known[i].USN) = 1
        /\ \A j \in DOMAIN NewCalls(s2) : NewCalls(s2)[j].delay = 0

----------------------------------------------------------------------------
\* the names of the header lines of a response, in their order
HeaderNames(response) == [i \in DOMAIN response |-> response[i][1]]

\* C24: every discovery response carries, after its status line, exactly the
\* headers USN, LOCATION, ST, EXT, SERVER, CACHE-CONTROL of the matched record
\* followed by DATE, and no MANIFESTATION, SILENT, HOST or other internal
\* field of the record such as last-seen.
C24_ResponseHeaders ==
    \A headers \in SearchHeaderSets, host \in PeerHosts, port \in PeerPorts :
    \A s2 \in datagramReceived(Cur, SearchCmd, headers, host, port) :
    \A j \in DOMAIN NewCalls(s2) :
        HeaderNames(NewCalls(s2)[j].response) =
            <<"USN", "LOCATION", "ST", "EXT", "SERVER", "CACHE-CONTROL", "DATE">>

----------------------------------------------------------------------------
\* one NOTIFY ssdp:alive to the group for every local record of d that is
\* not silent, in the order of d
AlivePerAnnounced(d) ==
    LET rs == SelectSeq(d, LAMBDA rec : rec.MANIFESTATION = "local" /\ rec.SILENT = FALSE)
    IN [k \in 1..Len(rs) |->
           [kind |-> "NOTIFY", nts |-> "ssdp:alive", usn |-> rs[k].USN,
            dest |-> GroupDest]]

\* C26: every NOTIFY ssdp:alive the engine sends names a record that is
\* local and not silent at send time: register sends exactly one alive when
\* manifestation is local and silent is false and none otherwise, and
\* resendNotify sends exactly one alive per local non-silent record and none
\* for silent or remote records.
C26_AliveOnlyForAnnounced ==
    /\ \A a \in RegisterArgs({"local", "remote"}, BOOLEAN) :
          LET s2 == register(Cur, a.MANIFESTATION, a.USN, a.ST, a.LOCATION, a.SERVER,
                             a["CACHE-CONTROL"], a.SILENT, a.HOST)
          IN Datagrams(s2.sent) =
                IF s2.raised = "none" /\ isKnown(s2.known, a.USN)
                   /\ GetItem(s2.known, a.USN) = a
                THEN AlivePerAnnounced(<<a>>) ELSE <<>>
    /\ Datagrams(resendNotify(Cur).sent) = AlivePerAnnounced(known)
    /\ \A s2 \in NotifyOutcomes : s2.sent = <<>>

\* a silent local record and a remote record are registered while the other
\* kind of record, local and not silent, can still be registered
C26_Witness ==
    /\ \E i \in DOMAIN known : known[i].MANIFESTATION = "local" /\ known[i].SILENT = TRUE
    /\ \E i \in DOMAIN known : known[i].MANIFESTATION = "remote"
    /\ resendNotify(Cur).sent = <<>>
    /\ \E a \in RegisterArgs({"local"}, {FALSE}) :
          Len(register(Cur, a.MANIFESTATION, a.USN, a.ST, a.LOCATION, a.SERVER,
                       a["CACHE-CONTROL"], a.SILENT, a.HOST).sent) = 1

----------------------------------------------------------------------------
\* C27: an inbound NOTIFY ssdp:alive whose USN is already in the registry
\* changes only the last-seen of that record: its other fields, every other
\* record and root_devices are unchanged and no device event is emitted,
\* also when the headers of the frame differ from the record.
C27_AliveRefreshesOnly ==
    \A headers \in NotifyHeaderSets, host \in NotifyPeers :
        headers["nts"] = "ssdp:alive" /\ isKnown(known, headers["usn"]) =>
            LET s2 == NotifyOutcome(headers, host)
            IN /\ s2.raised = "none"
               /\ s2.known = [i \in DOMAIN known |->
                                 IF known[i].USN = headers["usn"]
                                 THEN [known[i] EXCEPT !["last-seen"] = now]
                                 ELSE known[i]]
               /\ s2.root_devices = root_devices
               /\ \A i \in DOMAIN s2.emitted : s2.emitted[i].name \notin DeviceEvents

\* a record seen last at an earlier time is known, with an ST, a
\* CACHE-CONTROL and a HOST other than those of an arriving alive
C27_Witness ==
    \E i \in DOMAIN known, headers \in NotifyHeaderSets, host \in NotifyPeers :
        /\ headers["nts"] = "ssdp:alive" /\ headers["usn"] = known[i].USN
        /\ known[i]["last-seen"] < now
        /\ known[i].ST # headers["nt"]
        /\ known[i]["CACHE-CONTROL"] # headers["cache-control"]
        /\ known[i].HOST # host
        /\ NotifyOutcome(headers, host).known # known

----------------------------------------------------------------------------
\* C28: check_valid never emits removed_device for a record that is still
\* in the registry when it ends, also when another remote record has a
\* CACHE-CONTROL that is not of the form max-age=N.
C28_SweepRemovesWhatItAnnounces ==
    LET s2 == check_valid(Cur)
    IN \A i \in DOMAIN s2.emitted :
          s2.emitted[i].name = "removed_device" => ~isKnown(s2.known, s2.emitted[i].usn)

\* a variable of the connection's AVTransport or RenderingControl instance
\* was touched within the last 300 seconds
TouchedLately(c, connection, t) ==
    \/ /\ connection.AVTransportID \in DOMAIN c.av_transport
       /\ \E name \in AVTransportVariables :
              c.av_transport[connection.AVTransportID][name]
                  + LingerSeconds >= t
    \/ /\ connection.RcsID \in DOMAIN c.rendering_control
       /\ \E name \in RenderingControlVariables :
              c.rendering_control[connection.RcsID][name]
                  + LingerSeconds >= t

\* C29: on a MediaRenderer a run of remove_lingering_connections leaves in
\* connections and in CurrentConnectionIDs exactly the connections that
\* have an AVTransport or RenderingControl variable touched within the last
\* 300 seconds; on any other device type the run changes nothing
C29_LingeringRemoved ==
    cm.device_type # "none" =>
        LET c2 == remove_lingering_connections(cm, now)
            kept == SelectSeq(cm.connections,
                              LAMBDA x : TouchedLately(cm, x, now))
        IN IF cm.device_type = "MediaRenderer"
           THEN /\ c2.connections = kept
                /\ c2.CurrentConnectionIDs = csv_ids(kept)
           ELSE c2 = cm

====
